---- MODULE Spec2Model ----
(***************************************************************************)
(* LockfreeMandelbrot (src/main.cpp): worker threads claim batches of      *)
(* pixel indices from an atomic counter, render them into a private Stack  *)
(* and dump the Stack into the shared bitmap between a compare-and-swap on *)
(* mIsSavingResults and the store that clears it.  The orchestrator        *)
(* (startThreads / waitToFinish) is driven by one calling thread.          *)
(*                                                                         *)
(* Every access to an atomic, and the dump into the bitmap, is one step of *)
(* a worker; the thread-local work on one index is one step.               *)
(***************************************************************************)
EXTENDS Integers, Sequences, FiniteSets, TLC

(***************************************************************************)
(* Bounds of the model.  The program is built with cWidthPixels = 170,     *)
(* cHeightPixels = 118 and cBatchSize = 20000 and main() starts 24         *)
(* threads; the model ranges over every width, height, batch size and      *)
(* thread count up to these bounds.                                        *)
(***************************************************************************)
MaxWidth == 2
MaxHeight == 2
MaxBatch == 3
MaxThreads == 2
MaxStartCalls == 2
MaxFairStartCalls == 1

VARIABLES
    mWidthPixels,         \* int mWidthPixels
    mHeightPixels,        \* int mHeightPixels
    cBatchSize,           \* const auto cBatchSize
    mResults,             \* MandelbrotBitmap::map, mResults[x][y]
    mIsStarted,           \* std::atomic<bool>
    mIsSavingResults,     \* std::atomic<bool>, the merge flag, as its byte
    mMandelbrotIterator,  \* std::atomic<uint64_t>, the partitioner counter
    mThreads,             \* std::vector<std::thread>, with each thread's locals
    caller,               \* where the calling thread is: "idle", "joining" (in
                          \* waitToFinish), "destroying" (in the destructor's
                          \* waitToFinish) or "destroyed"
    joinIdx,              \* position of waitToFinish's loop over mThreads
    lastCall,             \* the orchestrator call that returned last, and its result
    startCalls,           \* number of startThreads calls made
    spawned,              \* numThreads of the last successful startThreads
    claimed,              \* batch id -> times fetch_add returned it in this run
    computed,             \* index -> times it was rendered and pushed in this run
    writes                \* <<x, y>> -> times dumpToMap wrote the cell in this run

vars == <<mWidthPixels, mHeightPixels, cBatchSize, mResults, mIsStarted,
          mIsSavingResults, mMandelbrotIterator, mThreads, caller, joinIdx,
          lastCall, startCalls, spawned, claimed, computed, writes>>

config == <<mWidthPixels, mHeightPixels, cBatchSize>>
history == <<claimed, computed, writes>>

(***************************************************************************)
(* Pure helpers                                                            *)
(***************************************************************************)
RECURSIVE GCD(_, _)
GCD(a, b) == IF b = 0 THEN a ELSE GCD(b, a % b)

Abs(n) == IF n < 0 THEN -n ELSE n

\* A rational in lowest terms, <<numerator, denominator>> with denominator > 0.
Rational(n, d) == LET g == GCD(Abs(n), d) IN <<n \div g, d \div g>>

\* uint16_t: the conversion of render's int to ResultType.
ResultType(i) == i % 65536

totalArea == mWidthPixels * mHeightPixels

Xs == 0 .. (mWidthPixels - 1)
Ys == 0 .. (mHeightPixels - 1)
Indices == 0 .. (totalArea - 1)

\* x / mWidthPixels * 2.47 - 2, as the exact rational (247 x - 200 w) / (100 w).
scaleX(x) == Rational(247 * x - 200 * mWidthPixels, 100 * mWidthPixels)

\* y / mHeightPixels * 2.24 - 1.12, as the exact rational (224 y - 112 h) / (100 h).
scaleY(y) == Rational(224 * y - 112 * mHeightPixels, 100 * mHeightPixels)

(***************************************************************************)
(* render iterates z <- z^2 + c on IEEE doubles up to cMaxIterations = 1000 *)
(* times.  TLA+ has no doubles: the values render returns on the scaled    *)
(* coordinates of every grid up to 4 x 4 are tabulated here from the       *)
(* program itself, keyed by the scaled coordinate.                         *)
(***************************************************************************)
RenderRowY == << <<-28, 25>>, <<-28, 75>>, <<-14, 25>>, <<0, 1>>, <<14, 25>>, <<28, 75>> >>

RenderRowX == << <<-553, 400>>, <<-353, 300>>, <<-153, 200>>, <<-59, 400>>, <<-53, 150>>, <<-2, 1>> >>

RenderTable ==
    << <<1, 4, 2, 1000, 2, 4>>,
       <<2, 6, 3, 1000, 3, 6>>,
       <<2, 7, 5, 1000, 5, 7>>,
       <<4, 1000, 1000, 1000, 1000, 1000>>,
       <<3, 1000, 1000, 1000, 1000, 1000>>,
       <<0, 0, 0, 1000, 0, 0>> >>

PosIn(row, v) == CHOOSE k \in 1 .. Len(row) : row[k] = v

render(scaledX, scaledY) ==
    ResultType(RenderTable[PosIn(RenderRowX, scaledX)][PosIn(RenderRowY, scaledY)])

\* Mutant of positionFromIndex: the division is by mHeightPixels.
positionFromIndex_ByHeight(in) ==
    LET y == in \div mHeightPixels
        x == in - (y * mWidthPixels)
    IN  <<x, y>>

\* y = in / mWidthPixels; x = in - (y * mWidthPixels); returned as <<x, y>>.
positionFromIndex(in) ==
    LET y == in \div mWidthPixels
        x == in - (y * mWidthPixels)
    IN  <<x, y>>

Item(x, y, res) == [x |-> x, y |-> y, res |-> res]

(***************************************************************************)
(* Stack                                                                   *)
(***************************************************************************)
\* static constexpr int cBufferSize{99999}: the length of arr.
cBufferSize == 99999

\* arr[lastPos] = item; ++lastPos.  The Stack is the sequence arr[0 .. lastPos-1].
push(threadStack, item) == Append(threadStack, item)

RECURSIVE dumpToMap_SkipsLast(_, _)
\* Mutant of dumpToMap: the loop stops one entry short (i != lastPos - 1).
dumpToMap_SkipsLast(threadStack, resultMap) ==
    IF Len(threadStack) <= 1 THEN resultMap
    ELSE LET e == Head(threadStack)
         IN  dumpToMap_SkipsLast(Tail(threadStack),
                                 [resultMap EXCEPT ![e.x][e.y] = e.res])

RECURSIVE dumpToMap(_, _)
\* for (i = 0; i != lastPos; ++i) resultMap[e.x][e.y] = e.res, in push order.
dumpToMap(threadStack, resultMap) ==
    IF threadStack = <<>> THEN resultMap
    ELSE LET e == Head(threadStack)
         IN  dumpToMap(Tail(threadStack),
                       [resultMap EXCEPT ![e.x][e.y] = e.res])

\* A function f with the count at key k raised by one (absent keys count 0).
Bump(f, k) == IF k \in DOMAIN f THEN [f EXCEPT ![k] = @ + 1] ELSE f @@ (k :> 1)

Count(f, k) == IF k \in DOMAIN f THEN f[k] ELSE 0

RECURSIVE BumpAll(_, _)
BumpAll(f, threadStack) ==
    IF threadStack = <<>> THEN f
    ELSE BumpAll(Bump(f, <<Head(threadStack).x, Head(threadStack).y>>),
                 Tail(threadStack))

(***************************************************************************)
(* MandelbrotBitmap(width, height): width columns of height value-         *)
(* initialised (zero) results.                                             *)
(***************************************************************************)
MandelbrotBitmap(width, height) ==
    [x \in 0 .. (width - 1) |-> [y \in 0 .. (height - 1) |-> 0]]

(***************************************************************************)
(* loop(): the locals of one worker thread                                 *)
(***************************************************************************)
\* Stack threadStack; int currentBatch, currentIndex{-1}; bool dummy is
\* declared at each flush.  currentBatch is written before it is read.
\* dummy is held as its byte: 0 is false, 1 is true.
NewThread ==
    [pc |-> "start", currentIndex |-> -1, currentBatch |-> 0, dummy |-> 0,
     threadStack |-> <<>>, joinable |-> TRUE]

\* Mutant of NoBatchLeft: the test is > in place of >=.
NoBatchLeft_OneMore(currentBatch) == currentBatch > totalArea \div cBatchSize

\* if (currentBatch >= totalArea / cBatchSize) return;  (integer division)
NoBatchLeft(currentBatch) == currentBatch >= totalArea \div cBatchSize

\* Mutant of LoopTop: the flush at a batch boundary is left out.
LoopTop_NoBatchBoundary(t) ==
    LET ci == t.currentIndex + 1
    IN  IF ci >= totalArea
        THEN [t EXCEPT !.currentIndex = ci, !.pc = "spin", !.dummy = 0]
        ELSE [t EXCEPT !.currentIndex = ci, !.pc = "compute"]

\* ++currentIndex; if (currentIndex % cBatchSize == 0 || currentIndex >= totalArea)
\* then bool dummy{false} and the spin, else the work on currentIndex.
LoopTop(t) ==
    LET ci == t.currentIndex + 1
    IN  IF ci % cBatchSize = 0 \/ ci >= totalArea
        THEN [t EXCEPT !.currentIndex = ci, !.pc = "spin", !.dummy = 0]
        ELSE [t EXCEPT !.currentIndex = ci, !.pc = "compute"]

\* Mutant of compare_exchange_weak: a failed exchange leaves dummy as it was.
compare_exchange_weak_KeepsExpected(flag, expected) ==
    IF flag = expected
    THEN [ok |-> TRUE, flag |-> 1, expected |-> expected]
    ELSE [ok |-> FALSE, flag |-> flag, expected |-> expected]

\* mIsSavingResults.compare_exchange_weak(dummy, true, acquire, relaxed):
\* the flag and dummy afterwards, and whether the exchange was made.  The
\* exchange compares the byte of the flag with the byte of dummy and stores
\* true (1) when they are equal; a failed exchange loads the flag's byte into
\* dummy.  A spurious failure finds the flag equal to dummy and changes
\* nothing: it is a stuttering step.
compare_exchange_weak(flag, expected) ==
    IF flag = expected
    THEN [ok |-> TRUE, flag |-> 1, expected |-> expected]
    ELSE [ok |-> FALSE, flag |-> flag, expected |-> flag]

Running(i) == i \in 1 .. Len(mThreads)

\* Thread entry: Stack threadStack; currentIndex{-1}; first pass of the loop top.
Enter(i) ==
    /\ Running(i)
    /\ mThreads[i].pc = "start"
    /\ mThreads' = [mThreads EXCEPT ![i] = LoopTop(@)]
    /\ UNCHANGED <<config, mResults, mIsStarted, mIsSavingResults,
                   mMandelbrotIterator, caller, joinIdx, lastCall, startCalls,
                   spawned, history>>

\* One pass of while (!mIsSavingResults.compare_exchange_weak(dummy, true, ...));
TrySave(i) ==
    /\ Running(i)
    /\ mThreads[i].pc = "spin"
    /\ LET r == compare_exchange_weak(mIsSavingResults, mThreads[i].dummy)
       IN  /\ mIsSavingResults' = r.flag
           /\ mThreads' = [mThreads EXCEPT ![i].dummy = r.expected,
                                           ![i].pc = IF r.ok THEN "dump" ELSE "spin"]
    /\ UNCHANGED <<config, mResults, mIsStarted, mMandelbrotIterator, caller,
                   joinIdx, lastCall, startCalls, spawned, history>>

\* Mutant of Dump: dumpToMap leaves lastPos as it is (no lastPos = 0).
Dump_KeepsBuffer(i) ==
    /\ Running(i)
    /\ mThreads[i].pc = "dump"
    /\ mResults' = dumpToMap(mThreads[i].threadStack, mResults)
    /\ writes' = BumpAll(writes, mThreads[i].threadStack)
    /\ mThreads' = [mThreads EXCEPT ![i].pc = "release"]
    /\ UNCHANGED <<config, mIsStarted, mIsSavingResults, mMandelbrotIterator,
                   caller, joinIdx, lastCall, startCalls, spawned, claimed,
                   computed>>

\* threadStack.dumpToMap(mResults.map);
Dump(i) ==
    /\ Running(i)
    /\ mThreads[i].pc = "dump"
    /\ mResults' = dumpToMap(mThreads[i].threadStack, mResults)
    /\ writes' = BumpAll(writes, mThreads[i].threadStack)
    /\ mThreads' = [mThreads EXCEPT ![i].threadStack = <<>>, ![i].pc = "release"]
    /\ UNCHANGED <<config, mIsStarted, mIsSavingResults, mMandelbrotIterator,
                   caller, joinIdx, lastCall, startCalls, spawned, claimed,
                   computed>>

\* mIsSavingResults.store(false, std::memory_order_release);
Release(i) ==
    /\ Running(i)
    /\ mThreads[i].pc = "release"
    /\ mIsSavingResults' = 0
    /\ mThreads' = [mThreads EXCEPT ![i].pc = "claim"]
    /\ UNCHANGED <<config, mResults, mIsStarted, mMandelbrotIterator, caller,
                   joinIdx, lastCall, startCalls, spawned, history>>

\* currentBatch = mMandelbrotIterator.fetch_add(1); return when no batch is
\* left, else currentIndex = currentBatch * cBatchSize.
Claim(i) ==
    /\ Running(i)
    /\ mThreads[i].pc = "claim"
    /\ LET b == mMandelbrotIterator
       IN  /\ mMandelbrotIterator' = b + 1
           /\ claimed' = Bump(claimed, b)
           /\ mThreads' =
                IF NoBatchLeft(b)
                THEN [mThreads EXCEPT ![i].currentBatch = b, ![i].pc = "done"]
                ELSE [mThreads EXCEPT ![i].currentBatch = b,
                                      ![i].currentIndex = b * cBatchSize,
                                      ![i].pc = "compute"]
    /\ UNCHANGED <<config, mResults, mIsStarted, mIsSavingResults, caller,
                   joinIdx, lastCall, startCalls, spawned, computed, writes>>

\* positionFromIndex, scaleX, scaleY, render, threadStack.push({x, y, result}),
\* then the loop top again.
Compute(i) ==
    /\ Running(i)
    /\ mThreads[i].pc = "compute"
    /\ LET t == mThreads[i]
           p == positionFromIndex(t.currentIndex)
           result == render(scaleX(p[1]), scaleY(p[2]))
           pushed == [t EXCEPT !.threadStack = push(@, Item(p[1], p[2], result))]
       IN  /\ mThreads' = [mThreads EXCEPT ![i] = LoopTop(pushed)]
           /\ computed' = Bump(computed, t.currentIndex)
    /\ UNCHANGED <<config, mResults, mIsStarted, mIsSavingResults,
                   mMandelbrotIterator, caller, joinIdx, lastCall, startCalls,
                   spawned, claimed, writes>>

(***************************************************************************)
(* The orchestrator, called from one thread                                *)
(***************************************************************************)
\* Mutant of StartAdmitted: the threads are spawned whatever mIsStarted holds.
StartAdmitted_Always(started) == TRUE

\* mIsStarted.compare_exchange_strong(expected{false}, true): whether it succeeds.
StartAdmitted(started) == started = FALSE

RECURSIVE Spawn(_, _)
\* for (i = 0; i != numThreads; ++i) mThreads.emplace_back(std::thread(loop))
Spawn(threads, numThreads) ==
    IF numThreads = 0 THEN threads
    ELSE Spawn(Append(threads, NewThread), numThreads - 1)

\* startThreads(numThreads).  The store of 0 into the counter comes before the
\* compare-and-swap on mIsStarted and is made whatever its outcome.  A thread
\* that has been spawned and has not run yet is in state "start", so spawning
\* all threads in one step loses no interleaving.
startThreads(numThreads) ==
    /\ caller = "idle"
    /\ startCalls < MaxStartCalls
    /\ startCalls' = startCalls + 1
    /\ mMandelbrotIterator' = 0
    /\ IF StartAdmitted(mIsStarted)
       THEN /\ mIsStarted' = TRUE
            /\ mThreads' = Spawn(mThreads, numThreads)
            /\ spawned' = numThreads
            /\ lastCall' = [op |-> "startThreads", ret |-> TRUE]
            /\ claimed' = <<>>
            /\ computed' = <<>>
            /\ writes' = <<>>
       ELSE /\ lastCall' = [op |-> "startThreads", ret |-> FALSE]
            /\ UNCHANGED <<mIsStarted, mThreads, spawned, history>>
    /\ UNCHANGED <<config, mResults, mIsSavingResults, caller, joinIdx>>

\* Mutant of waitToFinish: mIsStarted is not cleared before the joins.
waitToFinish_KeepsStarted ==
    /\ caller = "idle"
    /\ IF mIsStarted = FALSE
       THEN /\ lastCall' = [op |-> "waitToFinish", ret |-> "notStarted"]
            /\ UNCHANGED <<caller, joinIdx>>
       ELSE /\ caller' = "joining"
            /\ joinIdx' = 1
            /\ UNCHANGED lastCall
    /\ UNCHANGED <<config, mResults, mIsStarted, mIsSavingResults,
                   mMandelbrotIterator, mThreads, startCalls, spawned, history>>

\* Mutant of waitToFinish: no early return when mIsStarted is false.
waitToFinish_NoGuard ==
    /\ caller = "idle"
    /\ mIsStarted' = FALSE
    /\ caller' = "joining"
    /\ joinIdx' = 1
    /\ UNCHANGED <<config, mResults, mIsSavingResults, mMandelbrotIterator,
                   mThreads, lastCall, startCalls, spawned, history>>

\* waitToFinish(): if (mIsStarted == false) return; mIsStarted.store(false);
\* then the loop over mThreads begins.
waitToFinish ==
    /\ caller = "idle"
    /\ IF mIsStarted = FALSE
       THEN /\ lastCall' = [op |-> "waitToFinish", ret |-> "notStarted"]
            /\ UNCHANGED <<mIsStarted, caller, joinIdx>>
       ELSE /\ mIsStarted' = FALSE
            /\ caller' = "joining"
            /\ joinIdx' = 1
            /\ UNCHANGED lastCall
    /\ UNCHANGED <<config, mResults, mIsSavingResults, mMandelbrotIterator,
                   mThreads, startCalls, spawned, history>>

\* A thread that has been joined: its locals are gone, it is not joinable.
JoinedThread ==
    [pc |-> "done", currentIndex |-> -1, currentBatch |-> 0, dummy |-> 0,
     threadStack |-> <<>>, joinable |-> FALSE]

\* Mutant of Join: the caller goes on without waiting for the thread to return.
Join_NoWait ==
    /\ caller \in {"joining", "destroying"}
    /\ joinIdx <= Len(mThreads)
    /\ mThreads' = [mThreads EXCEPT ![joinIdx].joinable = FALSE]
    /\ joinIdx' = joinIdx + 1
    /\ UNCHANGED <<config, mResults, mIsStarted, mIsSavingResults,
                   mMandelbrotIterator, caller, lastCall, startCalls, spawned,
                   history>>

\* if (t.joinable()) t.join();  join() blocks until the thread has returned.
Join ==
    /\ caller \in {"joining", "destroying"}
    /\ joinIdx <= Len(mThreads)
    /\ IF mThreads[joinIdx].joinable
       THEN /\ mThreads[joinIdx].pc = "done"
            /\ mThreads' = [mThreads EXCEPT ![joinIdx] = JoinedThread]
       ELSE UNCHANGED mThreads
    /\ joinIdx' = joinIdx + 1
    /\ UNCHANGED <<config, mResults, mIsStarted, mIsSavingResults,
                   mMandelbrotIterator, caller, lastCall, startCalls, spawned,
                   history>>

\* The loop over mThreads is over: waitToFinish returns.
WaitReturn ==
    /\ caller = "joining"
    /\ joinIdx > Len(mThreads)
    /\ caller' = "idle"
    /\ lastCall' = [op |-> "waitToFinish", ret |-> "joined"]
    /\ UNCHANGED <<config, mResults, mIsStarted, mIsSavingResults,
                   mMandelbrotIterator, mThreads, joinIdx, startCalls, spawned,
                   history>>

\* ~LockfreeMandelbrot() { waitToFinish(); }: the early return, or the store
\* of false and the start of the loop over mThreads.
Destructor ==
    /\ caller = "idle"
    /\ IF mIsStarted = FALSE
       THEN /\ caller' = "destroyed"
            /\ lastCall' = [op |-> "destructor", ret |-> "notStarted"]
            /\ UNCHANGED <<mIsStarted, joinIdx>>
       ELSE /\ mIsStarted' = FALSE
            /\ caller' = "destroying"
            /\ joinIdx' = 1
            /\ UNCHANGED lastCall
    /\ UNCHANGED <<config, mResults, mIsSavingResults, mMandelbrotIterator,
                   mThreads, startCalls, spawned, history>>

\* The destructor's waitToFinish returns and the destructor completes.
DestructorReturn ==
    /\ caller = "destroying"
    /\ joinIdx > Len(mThreads)
    /\ caller' = "destroyed"
    /\ lastCall' = [op |-> "destructor", ret |-> "joined"]
    /\ UNCHANGED <<config, mResults, mIsStarted, mIsSavingResults,
                   mMandelbrotIterator, mThreads, joinIdx, startCalls, spawned,
                   history>>

\* std::atomic<bool> mIsSavingResults is default-constructed: its byte is
\* whatever the memory of the object held, false (0), true (1) or any other.
\* The program only compares the byte for equality with 0, with 1 and with
\* copies of itself, so every byte above 1 behaves alike; the bytes above 1
\* listed here are those that builds of the program were seen to leave.
UninitialisedFlag == {0, 1, 6, 32, 72, 90, 128, 232}

\* std::atomic<uint64_t> mMandelbrotIterator is default-constructed too.  No
\* step reads it before startThreads stores 0, so a few of its 2^64 values
\* stand for all of them.
UninitialisedCounter == {0, 6, 6041272}

(***************************************************************************)
(* Init: the state after LockfreeMandelbrot(width, height).  The           *)
(* constructor initialises mWidthPixels, mHeightPixels, mResults and       *)
(* mIsStarted; mIsSavingResults and mMandelbrotIterator are left           *)
(* uninitialised.                                                          *)
(***************************************************************************)
Init ==
    /\ mWidthPixels \in 1 .. MaxWidth
    /\ mHeightPixels \in 1 .. MaxHeight
    /\ cBatchSize \in 1 .. MaxBatch
    /\ mResults = MandelbrotBitmap(mWidthPixels, mHeightPixels)
    /\ mIsStarted = FALSE
    /\ mIsSavingResults \in UninitialisedFlag
    /\ mMandelbrotIterator \in UninitialisedCounter
    /\ mThreads = <<>>
    /\ caller = "idle"
    /\ joinIdx = 1
    /\ lastCall = [op |-> "none", ret |-> FALSE]
    /\ startCalls = 0
    /\ spawned = 0
    /\ claimed = <<>>
    /\ computed = <<>>
    /\ writes = <<>>

\* One step of worker thread i.
Worker(i) ==
    \/ Enter(i)
    \/ TrySave(i)
    \/ Dump(i)
    \/ Release(i)
    \/ Claim(i)
    \/ Compute(i)

\* Positions mThreads can have within the bounds.
Slots == 1 .. (MaxThreads * MaxStartCalls)

Next ==
    \/ \E n \in 0 .. MaxThreads : startThreads(n)
    \/ waitToFinish
    \/ Join
    \/ WaitReturn
    \/ Destructor
    \/ DestructorReturn
    \/ \E i \in Slots : Enter(i)
    \/ \E i \in Slots : TrySave(i)
    \/ \E i \in Slots : Dump(i)
    \/ \E i \in Slots : Release(i)
    \/ \E i \in Slots : Claim(i)
    \/ \E i \in Slots : Compute(i)

Spec == Init /\ [][Next]_vars

(***************************************************************************)
(* loop() run by one thread alone, as a function: the bitmap that a run    *)
(* with the given batch size leaves.  The reference of the determinism     *)
(* properties.                                                             *)
(***************************************************************************)
RECURSIVE SequentialBatch(_, _, _)
\* The passes of the loop from currentIndex up to the next flush.
SequentialBatch(batchSize, currentIndex, grid) ==
    LET p == positionFromIndex(currentIndex)
        g == [grid EXCEPT ![p[1]][p[2]] = render(scaleX(p[1]), scaleY(p[2]))]
        ci == currentIndex + 1
    IN  IF ci % batchSize = 0 \/ ci >= totalArea
        THEN g
        ELSE SequentialBatch(batchSize, ci, g)

RECURSIVE SequentialRun(_, _, _)
\* The batches from currentBatch on, until fetch_add returns an id with no batch left.
SequentialRun(batchSize, currentBatch, grid) ==
    IF currentBatch >= totalArea \div batchSize
    THEN grid
    ELSE SequentialRun(batchSize, currentBatch + 1,
                       SequentialBatch(batchSize, currentBatch * batchSize, grid))

SequentialGrid(batchSize) ==
    SequentialRun(batchSize, 0, MandelbrotBitmap(mWidthPixels, mHeightPixels))

(***************************************************************************)
(* Vocabulary of the properties                                            *)
(***************************************************************************)
\* waitToFinish has returned from joining the threads, and nothing was called since.
Joined == caller = "idle" /\ lastCall = [op |-> "waitToFinish", ret |-> "joined"]

\* ... after a successful start with at least one worker.
AfterRun == Joined /\ spawned >= 1

\* Every thread in mThreads has returned from loop().
AllDone == \A i \in 1 .. Len(mThreads) : mThreads[i].pc = "done"

\* The threads that are between winning the spin and the store of false.
Saving == {i \in 1 .. Len(mThreads) : mThreads[i].pc \in {"dump", "release"}}

\* kernel(scale(x, y))
Kernel(x, y) == render(scaleX(x), scaleY(y))

(***************************************************************************)
(* C1 - Coverage: after a successful start with at least one worker and    *)
(* after waitToFinish has returned, every cell (x, y) of the grid holds    *)
(* kernel(scale(x, y)).                                                    *)
(***************************************************************************)
C1_Coverage ==
    AfterRun => \A x \in Xs, y \in Ys : mResults[x][y] = Kernel(x, y)

(***************************************************************************)
(* C2 - Exactly-once write: over one run (one start, then waitToFinish)    *)
(* with 1 to totalArea / batchSize + 1 threads, every cell of the grid is  *)
(* written exactly once.                                                   *)
(***************************************************************************)
C2_ExactlyOnceWrite ==
    (AfterRun /\ startCalls = 1 /\ spawned <= (totalArea \div cBatchSize) + 1)
        => \A x \in Xs, y \in Ys : Count(writes, <<x, y>>) = 1

(***************************************************************************)
(* C3 - Partition exhaustiveness: when all workers have terminated, every  *)
(* index of [0, totalArea) has been processed exactly once, and a worker   *)
(* has stopped only on a batch id b with b * batchSize >= totalArea.       *)
(* Stated for a run with one start call and a batch size that is not       *)
(* larger than the area (C9 is the case of a larger one).                  *)
(***************************************************************************)
C3_PartitionExhaustive ==
    (startCalls = 1 /\ spawned >= 1 /\ AllDone /\ cBatchSize <= totalArea)
        => /\ \A in \in Indices : Count(computed, in) = 1
           /\ \A i \in 1 .. Len(mThreads) :
                mThreads[i].joinable =>
                    mThreads[i].currentBatch * cBatchSize >= totalArea

(***************************************************************************)
(* C4 - Mutual exclusion of flushes: at most one worker is between winning *)
(* the spin on the merge flag and storing false into it.                   *)
(***************************************************************************)
C4_FlushMutex == Cardinality(Saving) <= 1

(***************************************************************************)
(* C5 - Unique batch ids: no two fetch_add on the partitioner counter      *)
(* return the same batch id during a run, whatever the orchestrator is     *)
(* called with meanwhile.                                                  *)
(***************************************************************************)
C5_UniqueBatchIds == \A b \in DOMAIN claimed : claimed[b] <= 1

(***************************************************************************)
(* Fair scheduling: every worker thread that can take a step eventually    *)
(* takes one, and so does the calling thread once it is inside             *)
(* waitToFinish.  Nothing obliges the caller to call the orchestrator.     *)
(***************************************************************************)
Fairness ==
    /\ \A i \in Slots : WF_vars(Worker(i))
    /\ WF_vars(Join)
    /\ WF_vars(WaitReturn)
    /\ WF_vars(DestructorReturn)

\* The runs in which the caller calls startThreads at most MaxFairStartCalls times.
FairNext ==
    \/ \E n \in 0 .. MaxThreads : startCalls < MaxFairStartCalls /\ startThreads(n)
    \/ waitToFinish
    \/ Join
    \/ WaitReturn
    \/ Destructor
    \/ DestructorReturn
    \/ \E i \in Slots : Enter(i)
    \/ \E i \in Slots : TrySave(i)
    \/ \E i \in Slots : Dump(i)
    \/ \E i \in Slots : Release(i)
    \/ \E i \in Slots : Claim(i)
    \/ \E i \in Slots : Compute(i)

FairSpec == Init /\ [][FairNext]_vars /\ Fairness

PcOf(i) == IF Running(i) THEN mThreads[i].pc ELSE "none"

(***************************************************************************)
(* C6 - No deadlock, termination: under fair scheduling every spin on the  *)
(* merge flag eventually succeeds, every worker eventually leaves its      *)
(* loop, and a pending waitToFinish eventually returns, whichever value    *)
(* the merge flag starts with.                                             *)
(***************************************************************************)
C6_Termination ==
    /\ \A i \in Slots : (PcOf(i) = "spin") ~> (PcOf(i) = "dump")
    /\ \A i \in Slots : (PcOf(i) # "none") ~> (PcOf(i) = "done")
    /\ (caller = "joining") ~> (caller = "idle")

\* A waitToFinish is pending while a worker has failed an attempt at the flag.
C6_PendingJoinWhileSpinning ==
    /\ caller = "joining"
    /\ \E i \in 1 .. Len(mThreads) :
            mThreads[i].pc = "spin" /\ mThreads[i].dummy = 1

(***************************************************************************)
(* C7 - Determinism in the thread count: after waitToFinish, the grid of a *)
(* run with any number >= 1 of threads, under any interleaving, is the     *)
(* grid that one thread running loop() alone leaves.                       *)
(***************************************************************************)
C7_ThreadCountDeterminism == AfterRun => mResults = SequentialGrid(cBatchSize)

C7_TwoThreadsFilledGrid ==
    /\ AfterRun
    /\ spawned >= 2
    /\ \E x \in Xs, y \in Ys : mResults[x][y] # 0

(***************************************************************************)
(* C8 - Determinism in the batch size: after waitToFinish, the grid is the *)
(* one a run with any other batch size >= 1 leaves.                        *)
(***************************************************************************)
C8_BatchSizeDeterminism ==
    AfterRun => \A batchSize \in 1 .. MaxBatch : mResults = SequentialGrid(batchSize)

(***************************************************************************)
(* C9 - Oversized batch: with batchSize > totalArea, when the run is over  *)
(* batch 0 has been claimed once and every index of [0, totalArea)         *)
(* processed once, and the grid holds the kernel's value in every cell.    *)
(***************************************************************************)
C9_OversizedBatch ==
    (AfterRun /\ startCalls = 1 /\ cBatchSize > totalArea)
        => /\ Count(claimed, 0) = 1
           /\ \A in \in Indices : Count(computed, in) = 1
           /\ \A x \in Xs, y \in Ys : mResults[x][y] = Kernel(x, y)

(***************************************************************************)
(* C10 - Double-start guard: startThreads(n) returns true and spawns n     *)
(* workers exactly when the orchestrator is not running (no call has been  *)
(* made yet, or the last call to return was a waitToFinish); when it is    *)
(* running (the last call to return was a startThreads) it returns false   *)
(* and spawns nothing.  So two starts in a row never both return true.     *)
(***************************************************************************)
C10_DoubleStartGuard ==
    [][\A n \in 0 .. MaxThreads :
         startThreads(n) =>
            LET notRunning == lastCall.op # "startThreads"
            IN  /\ lastCall'.ret = notRunning
                /\ notRunning =>
                     /\ Len(mThreads') = Len(mThreads) + n
                     /\ \A i \in 1 .. Len(mThreads) : mThreads'[i] = mThreads[i]
                     /\ \A i \in (Len(mThreads) + 1) .. Len(mThreads') :
                            mThreads'[i].pc = "start"
                /\ ~notRunning => mThreads' = mThreads]_vars

C10_SecondStartRefused ==
    /\ lastCall = [op |-> "startThreads", ret |-> FALSE]
    /\ startCalls = 2
    /\ Len(mThreads) = spawned
    /\ spawned >= 1

\* waitToFinish, called directly or by the destructor, has returned from joining
\* the threads, and no call has returned since.
JoinReturned ==
    /\ caller \in {"idle", "destroyed"}
    /\ lastCall.op \in {"waitToFinish", "destructor"}
    /\ lastCall.ret = "joined"

(***************************************************************************)
(* C11 - Join guarantee: when waitToFinish returns after a successful      *)
(* start, and when the destructor completes, every spawned worker has      *)
(* returned from loop() and has been joined, and no worker takes a step    *)
(* from then on.                                                           *)
(***************************************************************************)
C11_JoinGuarantee ==
    [][/\ JoinReturned' =>
            \A i \in 1 .. Len(mThreads') :
                mThreads'[i].pc = "done" /\ ~mThreads'[i].joinable
       /\ JoinReturned => ~(\E i \in Slots : Worker(i))]_vars

C11_DestructorJoinedTwoWorkers ==
    /\ caller = "destroyed"
    /\ lastCall = [op |-> "destructor", ret |-> "joined"]
    /\ spawned >= 2
    /\ writes # <<>>

\* The members of the orchestrator, and where its caller is.
orchestrator == <<mIsStarted, mIsSavingResults, mMandelbrotIterator, mThreads,
                  mResults, caller, joinIdx>>

(***************************************************************************)
(* C12 - Idempotent teardown: waitToFinish called when the orchestrator is *)
(* not running (no call was made yet, or the last call to return was a     *)
(* waitToFinish) changes nothing of the orchestrator and joins nothing:    *)
(* it returns at once.                                                     *)
(***************************************************************************)
C12_IdempotentTeardown ==
    [][(waitToFinish /\ lastCall.op \in {"none", "waitToFinish"})
          => UNCHANGED orchestrator]_vars

C12_SecondWaitAfterJoin ==
    /\ lastCall = [op |-> "waitToFinish", ret |-> "notStarted"]
    /\ Len(mThreads) >= 1
    /\ \A i \in 1 .. Len(mThreads) : ~mThreads[i].joinable

\* Some thread of mThreads has been joined.
SomeJoined == \E i \in 1 .. Len(mThreads) : ~mThreads[i].joinable

\* The orchestrator has been started and the last call to return was a waitToFinish.
InJoined == caller = "idle" /\ lastCall.op = "waitToFinish" /\ startCalls >= 1

(***************************************************************************)
(* C13 - Joined is terminal, as claimed: once workers have been joined the *)
(* orchestrator is never Running again and no worker is spawned beyond     *)
(* those of the one start.                                                 *)
(***************************************************************************)
C13_JoinedIsTerminal ==
    SomeJoined => ~mIsStarted /\ Len(mThreads) = spawned

(***************************************************************************)
(* C13, amended - The orchestrator moves NotStarted -> Running -> Joined   *)
(* and leaves Joined only by a startThreads call: in Joined no flag, no    *)
(* thread, no counter and no grid cell changes until startThreads is       *)
(* called, and that call returns true, sets mIsStarted and spawns its      *)
(* numThreads workers (Joined -> Running).                                 *)
(***************************************************************************)
C13_JoinedUntilRestart ==
    [][InJoined =>
         /\ \A n \in 0 .. MaxThreads :
              startThreads(n) =>
                 /\ lastCall'.ret = TRUE
                 /\ mIsStarted'
                 /\ Len(mThreads') = Len(mThreads) + n
         /\ ~(\E n \in 0 .. MaxThreads : startThreads(n)) =>
                 UNCHANGED <<mIsStarted, mIsSavingResults, mMandelbrotIterator,
                             mThreads, mResults>>]_vars

\* A second run, started after a join, has written grid cells.
C13_SecondRunWrites ==
    /\ mIsStarted
    /\ SomeJoined
    /\ writes # <<>>

(***************************************************************************)
(* C14 - Failed start has no effect: the startThreads call that returns    *)
(* false leaves the partitioner counter, the merge flag, the threads and   *)
(* the grid unchanged.                                                     *)
(***************************************************************************)
C14_FailedStartNoEffect ==
    [][\A n \in 0 .. MaxThreads :
         (startThreads(n) /\ lastCall' = [op |-> "startThreads", ret |-> FALSE])
            => UNCHANGED <<mMandelbrotIterator, mIsSavingResults, mThreads,
                           mResults>>]_vars

(***************************************************************************)
(* C15 - Spin acquisition step: a worker starts flushing only by a         *)
(* compare-and-swap of its own that changes the merge flag from false to   *)
(* true.  Stated for the attempts made while another worker holds the      *)
(* flag: none of them, first or retry, admits the worker.                  *)
(***************************************************************************)
C15_SpinAcquisition ==
    [][\A i \in 1 .. Len(mThreads) :
         (Saving # {} /\ mThreads[i].pc = "spin" /\ mThreads'[i].pc = "dump")
            => mIsSavingResults = 0 /\ mIsSavingResults' = 1]_vars

(***************************************************************************)
(* C16 - Bounded buffer occupancy: in every reachable state each worker's  *)
(* threadStack holds at most cBatchSize entries, cBatchSize is at most     *)
(* cBufferSize, and so no push writes at or past arr[cBufferSize].         *)
(***************************************************************************)
C16_BoundedBuffer ==
    /\ cBatchSize <= cBufferSize
    /\ \A i \in 1 .. Len(mThreads) :
         /\ Len(mThreads[i].threadStack) <= cBatchSize
         /\ Len(mThreads[i].threadStack) <= cBufferSize

\* A worker waits to flush a buffer that holds a whole batch of several entries.
C16_FullBatchBuffered ==
    \E i \in 1 .. Len(mThreads) :
        /\ cBatchSize >= 2
        /\ Len(mThreads[i].threadStack) = cBatchSize
        /\ mThreads[i].pc = "spin"

\* The coordinates a worker holds in its threadStack.
Buffered(i) ==
    {<<mThreads[i].threadStack[j].x, mThreads[i].threadStack[j].y>> :
        j \in 1 .. Len(mThreads[i].threadStack)}

(***************************************************************************)
(* C17 - Flush before claim and before exit: whenever a worker is at the   *)
(* fetch_add that claims a batch id, and when it has returned, its         *)
(* threadStack is empty; so a computed result that is not in the grid is   *)
(* in the threadStack of a worker that has not returned, and none is       *)
(* missing from the grid once the workers have returned.                   *)
(***************************************************************************)
C17_FlushBeforeClaim ==
    /\ \A i \in 1 .. Len(mThreads) :
         mThreads[i].pc \in {"claim", "done"} => mThreads[i].threadStack = <<>>
    /\ \A in \in DOMAIN computed :
         LET p == positionFromIndex(in)
         IN  \/ mResults[p[1]][p[2]] = Kernel(p[1], p[2])
             \/ \E i \in 1 .. Len(mThreads) :
                    mThreads[i].pc \notin {"claim", "done"} /\ p \in Buffered(i)

\* A worker has returned, not yet joined, after batches were claimed and
\* flushed, while another worker still holds results in its buffer.
C17_ReturnedAfterFlush ==
    \E i, k \in 1 .. Len(mThreads) :
        /\ mThreads[i].pc = "done" /\ mThreads[i].joinable
        /\ mThreads[i].currentBatch >= 1
        /\ mThreads[k].threadStack # <<>>
        /\ writes # <<>>

(***************************************************************************)
(* C18 - In-range work: every index a worker is about to compute or has    *)
(* computed lies in 0 .. totalArea - 1, and inside the batch the worker    *)
(* holds, currentBatch * cBatchSize .. (currentBatch + 1) * cBatchSize - 1;*)
(* so every buffered coordinate and every grid write has 0 <= x < width    *)
(* and 0 <= y < height.                                                    *)
(***************************************************************************)
C18_InRangeWork ==
    /\ \A i \in 1 .. Len(mThreads) :
         /\ mThreads[i].pc = "compute" =>
              /\ mThreads[i].currentIndex \in Indices
              /\ mThreads[i].currentIndex >= mThreads[i].currentBatch * cBatchSize
              /\ mThreads[i].currentIndex < (mThreads[i].currentBatch + 1) * cBatchSize
         /\ Buffered(i) \subseteq Xs \X Ys
    /\ DOMAIN computed \subseteq Indices
    /\ DOMAIN writes \subseteq Xs \X Ys

\* The last cell of a grid of several cells has been computed and written.
C18_LastCellWritten ==
    /\ totalArea >= 2
    /\ Count(computed, totalArea - 1) >= 1
    /\ Count(writes, <<mWidthPixels - 1, mHeightPixels - 1>>) >= 1

(***************************************************************************)
(* C19 - Index mapping is a bijection: positionFromIndex maps each index   *)
(* in 0 .. width * height - 1 to <<x, y>> with y = index div width and     *)
(* x = index - y * width, where 0 <= x < width and 0 <= y < height;        *)
(* distinct indices give distinct coordinates, and every coordinate of the *)
(* grid is the image of exactly one index.                                 *)
(***************************************************************************)
C19_IndexBijection ==
    /\ \A in \in Indices :
         LET p == positionFromIndex(in)
         IN  /\ p[2] = in \div mWidthPixels
             /\ p[1] = in - p[2] * mWidthPixels
             /\ p[1] \in Xs
             /\ p[2] \in Ys
    /\ \A in1, in2 \in Indices :
         positionFromIndex(in1) = positionFromIndex(in2) => in1 = in2
    /\ \A c \in Xs \X Ys :
         Cardinality({in \in Indices : positionFromIndex(in) = c}) = 1

\* On a grid of two columns and two rows a worker has computed index 3 and
\* holds its result under the coordinate <<1, 1>>.
C19_LastIndexBuffered ==
    /\ mWidthPixels = 2 /\ mHeightPixels = 2
    /\ Count(computed, 3) >= 1
    /\ \E i \in 1 .. Len(mThreads) : <<1, 1>> \in Buffered(i)

====
